---------------------------- MODULE Spec2Model ----------------------------
(***************************************************************************)
(* Model of src/app.py: a Streamlit client of an attendance backend.       *)
(*                                                                         *)
(* The script is re-executed from top to bottom on every user event or     *)
(* auto-refresh tick ("run").  A run rebuilds the page: what is on screen  *)
(* after a run is exactly what that run emitted.  st.session_state lives   *)
(* across runs.  Each HTTP call is blocking; the backend is a separate     *)
(* process whose token may rotate while a request is in flight.            *)
(*                                                                         *)
(* Strings are sequences of one-character strings.                         *)
(***************************************************************************)
EXTENDS Integers, Sequences, FiniteSets, TLC

None == <<"None">>              \* Python None, comparable with strings

\* ------------------------------------------------------------------------
\* Bounds
\* ------------------------------------------------------------------------
MaxTicks == 3        \* QR display runs counted by the counters
MaxRotations == 2    \* backend token rotations
MaxCompanyId == 12   \* largest company id tried in the link round trip

\* ------------------------------------------------------------------------
\* Strings
\* ------------------------------------------------------------------------
Digit == <<"0", "1", "2", "3", "4", "5", "6", "7", "8", "9">>

\* Python str(int) for a non-negative int.
RECURSIVE str(_)
str(n) == IF n < 10 THEN <<Digit[n + 1]>>
          ELSE str(n \div 10) \o <<Digit[(n % 10) + 1]>>

\* Characters urllib.parse.quote_plus leaves alone (letters, digits, "_.-~").
AlwaysSafe == {"a", "b", "c", "d", "e", "h", "i", "k", "m", "n", "o", "p",
               "q", "r", "t", "x", "y", "z",
               "0", "1", "2", "3", "4", "5", "6", "7", "8", "9",
               "_", ".", "-", "~"}

\* Percent escapes of the reserved characters the model uses.
Hex(c) == CASE c = "&" -> <<"%", "2", "6">>
            [] c = "=" -> <<"%", "3", "D">>
            [] c = "/" -> <<"%", "2", "F">>
            [] c = "%" -> <<"%", "2", "5">>
            [] c = "+" -> <<"%", "2", "B">>
            [] c = "?" -> <<"%", "3", "F">>
            [] c = ":" -> <<"%", "3", "A">>
            [] OTHER -> <<"%", "3", "F">>

UnHex(a, b) == CASE a = "2" /\ b = "6" -> "&"
                 [] a = "3" /\ b = "D" -> "="
                 [] a = "2" /\ b = "F" -> "/"
                 [] a = "2" /\ b = "5" -> "%"
                 [] a = "2" /\ b = "B" -> "+"
                 [] a = "3" /\ b = "F" -> "?"
                 [] a = "3" /\ b = "A" -> ":"
                 [] OTHER -> "?"

\* urllib.parse.quote_plus(s): the per-value encoding urlencode applies.
RECURSIVE quote_plus(_)
quote_plus(s) ==
    IF s = <<>> THEN <<>>
    ELSE LET c == Head(s)
             e == IF c \in AlwaysSafe THEN <<c>>
                  ELSE IF c = " " THEN <<"+">>
                  ELSE Hex(c)
         IN  e \o quote_plus(Tail(s))

\* urllib.parse.unquote_plus(s): what parse_qs applies to a value.
RECURSIVE unquote_plus(_)
unquote_plus(s) ==
    IF s = <<>> THEN <<>>
    ELSE IF Head(s) = "+" THEN <<" ">> \o unquote_plus(Tail(s))
    ELSE IF Head(s) = "%" /\ Len(s) >= 3
         THEN <<UnHex(s[2], s[3])>> \o unquote_plus(SubSeq(s, 4, Len(s)))
    ELSE <<Head(s)>> \o unquote_plus(Tail(s))

\* str.rstrip("/")
RECURSIVE rstrip(_)
rstrip(s) == IF s # <<>> /\ s[Len(s)] = "/"
             THEN rstrip(SubSeq(s, 1, Len(s) - 1))
             ELSE s

KeyCompanyId == <<"c", "o", "m", "p", "a", "n", "y", "_", "i", "d">>
KeyQrToken == <<"q", "r", "_", "t", "o", "k", "e", "n">>

\* urlencode({"company_id": company_id, "qr_token": token})
urlencode(company_id, token) ==
    quote_plus(KeyCompanyId) \o <<"=">> \o quote_plus(str(company_id))
      \o <<"&">> \o
    quote_plus(KeyQrToken) \o <<"=">> \o quote_plus(token)

\* QR_DISPLAY: frontend = base.rstrip("/") if base else "";
\* deep_link = f"{frontend}/?{urlencode(params)}" if frontend else f"/?..."
deep_link(base, company_id, token) ==
    LET frontend == IF base # <<>> THEN rstrip(base) ELSE <<>>
    IN  IF frontend # <<>>
        THEN frontend \o <<"/", "?">> \o urlencode(company_id, token)
        ELSE <<"/", "?">> \o urlencode(company_id, token)

\* HR QR tab: f"{base.rstrip('/')}/?{urlencode(params)}" if base else f"/?..."
hr_deep_link(base, company_id, token) ==
    IF base # <<>>
    THEN rstrip(base) \o <<"/", "?">> \o urlencode(company_id, token)
    ELSE <<"/", "?">> \o urlencode(company_id, token)

\* Index of the first occurrence of c in s, 0 when absent.
RECURSIVE Find(_, _, _)
Find(s, c, i) == IF i > Len(s) THEN 0
                 ELSE IF s[i] = c THEN i
                 ELSE Find(s, c, i + 1)

\* The query string of a URL: what follows the first "?".
QueryString(url) ==
    LET i == Find(url, "?", 1)
    IN  IF i = 0 THEN <<>> ELSE SubSeq(url, i + 1, Len(url))

\* str.split("&")
RECURSIVE SplitAmp(_)
SplitAmp(s) ==
    LET i == Find(s, "&", 1)
    IN  IF i = 0 THEN <<s>>
        ELSE <<SubSeq(s, 1, i - 1)>> \o SplitAmp(SubSeq(s, i + 1, Len(s)))

\* The value st.query_params holds for a key: the decoded value of the last
\* name=value pair with that name, None when there is none.
RECURSIVE LastValue(_, _, _)
LastValue(pairs, key, found) ==
    IF pairs = <<>> THEN found
    ELSE LET p == Head(pairs)
             i == Find(p, "=", 1)
             name == unquote_plus(IF i = 0 THEN p ELSE SubSeq(p, 1, i - 1))
             value == unquote_plus(IF i = 0 THEN <<>>
                                   ELSE SubSeq(p, i + 1, Len(p)))
         IN  LastValue(Tail(pairs), key, IF name = key THEN value ELSE found)

query_params_value(url, key) ==
    IF QueryString(url) = <<>> THEN None
    ELSE LastValue(SplitAmp(QueryString(url)), key, None)

IndexError == <<"IndexError">>

\* EMPLOYEE: params.get(key, [None])[0].  st.query_params.get returns the
\* value as a str, so [0] takes its first character; the default [None]
\* gives None; an empty value raises IndexError.
query_param(url, key) ==
    LET v == query_params_value(url, key)
    IN  IF v = None THEN None
        ELSE IF v = <<>> THEN IndexError
        ELSE <<v[1]>>


\* ------------------------------------------------------------------------
\* State
\* ------------------------------------------------------------------------
VARIABLES
    ui_view,            \* st.session_state["ui_view"]
    hr_token,           \* st.session_state["hr_token"]
    hr_email,           \* st.session_state["hr_email"]
    hr_company,         \* st.session_state["hr_company"]
    qr_last_token,      \* st.session_state["qr_last_token"]
    frontend_base_url,  \* st.session_state["frontend_base_url"]
    backend_gen,        \* backend: generation of its current QR token
    inflight,           \* requests sent whose run has not yet resumed
    display,            \* the page the last finished run left on screen
    tick_count,         \* runs of the QR display view started
    get_count,          \* GET /qr/{id}/version requests issued
    render_count,       \* qrcode.make + st.image executed by QR display
    change_count,       \* writes of qr_last_token by QR display
    lk                  \* deep link round trip: inputs, link, parsed values

vars == <<ui_view, hr_token, hr_email, hr_company, qr_last_token,
          frontend_base_url, backend_gen, inflight, display,
          tick_count, get_count, render_count, change_count, lk>>

session == <<ui_view, hr_token, hr_email, hr_company, qr_last_token,
             frontend_base_url>>
counters == <<tick_count, get_count, render_count, change_count>>

\* ------------------------------------------------------------------------
\* Backend and HTTP
\* ------------------------------------------------------------------------
\* The backend's token of generation g: an opaque string, fresh per rotation.
TokenOf(g) == <<"k">> \o str(g)

MaxGen == MaxRotations + 1

\* Generation of a token held by the client (0 for None).
GenOf(t) == IF t = None THEN 0
            ELSE CHOOSE g \in 1..(MaxGen + 1) : TokenOf(g) = t

Statuses == {200, 401, 403, 500}

\* Shapes of a response body: not JSON at all, or a JSON object with the
\* listed fields (t = token, d = token_date, u = updated_at).
Bodies == {"not_json", "tdu", "td", "t", "empty"}

HasField(body, f) ==
    CASE f = "token" -> body \in {"tdu", "td", "t"}
      [] f = "token_date" -> body \in {"tdu", "td"}
      [] f = "updated_at" -> body = "tdu"
      [] OTHER -> FALSE

\* status 0: requests raised (timeout, connection refused): no Response.
NetworkFailure(g) == [status |-> 0, body |-> "not_json", gen |-> g]

\* What one HTTP attempt can come back with when the backend is at
\* generation g.
Responses(g) ==
    {NetworkFailure(g)} \cup
    [status : {200}, body : Bodies, gen : {g}] \cup
    [status : Statuses \ {200}, body : {"not_json", "tdu"}, gen : {g}]

\* What a second attempt could come back with: nothing, or the good answer.
Retries(g) == {NetworkFailure(g), [status |-> 200, body |-> "tdu", gen |-> g]}

\* A variant that re-attempts once after a failed attempt.
api_get_retry(attempts) ==
    IF attempts[1].status = 0
    THEN [res |-> attempts[2], requests |-> 2,
          failed |-> attempts[2].status = 0]
    ELSE [res |-> attempts[1], requests |-> 1, failed |-> FALSE]

\* api_get / api_post: one requests.get/post; an exception gives st.error
\* and None.  attempts is what the network would answer to successive
\* attempts.
api_get(attempts) ==
    [res |-> attempts[1], requests |-> 1, failed |-> attempts[1].status = 0]

\* response_json_or_text(res)[0]
json_ok(res) == res.status # 0 /\ res.body # "not_json"

\* bool(res): None is falsy, and a requests.Response is truthy iff its
\* status is below 400.
Truthy(res) == res.status # 0 /\ res.status < 400

\* A variant that trusts any response with a JSON body.
accepted_any_status(res) == res.status # 0 /\ json_ok(res)

\* The guard `res and res.status_code == 200 and ok`.
accepted(res) == Truthy(res) /\ res.status = 200 /\ json_ok(res)

\* What st.error(data) shows in the else branch.
error_data(res) == IF res.status = 0 THEN "No response" ELSE "data"

\* qrcode.make(link): the image encoding a link.
qrcode_make(link) == [qr |-> link]
NoImage == [qr |-> None]

\* A page: the view it shows, the QR image on it, the st.error text, whether
\* the run ended in an uncaught exception, whether st.success was shown, and
\* the status of the QR response the run handled (0: none came back, -1: the
\* run made no QR request).
Blank(view) == [view |-> view, image |-> NoImage, error |-> "",
                exception |-> FALSE, success |-> FALSE, status |-> -1]

\* ------------------------------------------------------------------------
\* What a run does with the response, per view
\* ------------------------------------------------------------------------
\* QR_DISPLAY, lines 509-533.  Result: the new qr_last_token, the page, and
\* how many renders and token writes happened.
qr_display_run(res, last, base, company_id) ==
    IF accepted(res)
    THEN IF ~ (HasField(res.body, "token") /\ HasField(res.body, "token_date")
               /\ HasField(res.body, "updated_at"))
         THEN \* KeyError at lines 513-515, before any write or output
              [last |-> last, rendered |-> 0, changed |-> 0,
               page |-> [Blank("QR_DISPLAY") EXCEPT !.status = res.status,
                                                 !.exception = TRUE]]
         ELSE LET token == TokenOf(res.gen)
                  link == deep_link(base, company_id, token)
                  changed == token # last
              IN  [last |-> IF changed THEN token ELSE last,
                   rendered |-> 1,
                   changed |-> IF changed THEN 1 ELSE 0,
                   page |-> [Blank("QR_DISPLAY") EXCEPT
                                !.status = res.status,
                                !.image = qrcode_make(link)]]
    ELSE [last |-> last, rendered |-> 0, changed |-> 0,
          page |-> [Blank("QR_DISPLAY") EXCEPT !.status = res.status,
                                             !.error = error_data(res)]]

\* HR QR tab, "Fetch Current QR", lines 300-313.
hr_fetch_run(res, last, base, company_id) ==
    IF accepted(res)
    THEN IF ~ HasField(res.body, "token")
         THEN \* KeyError at line 304
              [last |-> last,
               page |-> [Blank("HR_QR") EXCEPT !.status = res.status,
                                        !.exception = TRUE]]
         ELSE LET token == TokenOf(res.gen)
                  link == hr_deep_link(base, company_id, token)
              IN  IF ~ HasField(res.body, "token_date")
                  THEN \* KeyError at line 310, after the write of line 305
                       [last |-> token,
                        page |-> [Blank("HR_QR") EXCEPT !.status = res.status,
                                        !.exception = TRUE]]
                  ELSE [last |-> token,
                        page |-> [Blank("HR_QR") EXCEPT
                                     !.status = res.status,
                                     !.image = qrcode_make(link)]]
    ELSE [last |-> last,
          page |-> [Blank("HR_QR") EXCEPT !.status = res.status,
                                   !.error = error_data(res)]]

\* A variant of the regenerate handler that goes on to fetch and show the
\* rotated token.
hr_regenerate_then_fetch(res, last, base, company_id) ==
    IF accepted(res)
    THEN [last |-> TokenOf(res.gen),
          page |-> [Blank("HR_QR") EXCEPT
                       !.status = res.status,
                       !.success = TRUE,
                       !.image = qrcode_make(
                           hr_deep_link(base, company_id, TokenOf(res.gen)))]]
    ELSE [last |-> last,
          page |-> [Blank("HR_QR") EXCEPT !.status = res.status,
                                   !.error = error_data(res)]]

\* HR QR tab, "Regenerate QR Now", lines 316-322.
hr_regenerate_run(res, last, base, company_id) ==
    IF accepted(res)
    THEN [last |-> last, page |-> [Blank("HR_QR") EXCEPT !.status = res.status,
                                            !.success = TRUE]]
    ELSE [last |-> last,
          page |-> [Blank("HR_QR") EXCEPT !.status = res.status,
                                   !.error = error_data(res)]]


\* ------------------------------------------------------------------------
\* Inputs
\* ------------------------------------------------------------------------
Choices == {"Home", "HR", "Employee", "QR Display"}
HrTabs == {"Company", "Employees", "QR", "Leaves", "Reports"}
CompanyIds == {1, 12}     \* values of the QR display "Company ID" input
HrCompanyIds == {12}      \* the id GET /company/me reports for the HR's company
Bases == {<<>>, <<"h", "/">>}
AuthStatuses == {0, 200, 201, 401}
AuthBodies == {"access_token", "empty", "not_json"}

LinkBases == {<<>>, <<"/">>, <<"h">>, <<"h", "/">>}
LinkTokens == {<<"a">>, <<"a", "b">>, <<"a", " ", "b">>, <<"x", "&", "y">>,
               <<"t", "=", "1">>, <<"%", "2", "6">>, <<"a", "+">>}

LkIdle == [base |-> <<>>, company_id |-> 1, token |-> <<"a">>,
           link |-> None, cid_back |-> None, tok_back |-> None]

\* ------------------------------------------------------------------------
\* Init: the session state DEFAULTS, nothing on screen, nothing in flight
\* ------------------------------------------------------------------------
Init ==
    /\ ui_view = "HOME"
    /\ hr_token = None
    /\ hr_email = None
    /\ hr_company = None
    /\ qr_last_token = None
    /\ frontend_base_url = <<>>
    /\ backend_gen = 1
    /\ inflight = {}
    /\ display = Blank("NONE")
    /\ tick_count = 0
    /\ get_count = 0
    /\ render_count = 0
    /\ change_count = 0
    /\ lk = LkIdle

\* ------------------------------------------------------------------------
\* Runs
\* ------------------------------------------------------------------------
\* A variant of the sidebar that sends HR to the dashboard without looking
\* at the token.
sidebar_no_token_check(choice, token) ==
    CASE choice = "Home" -> "HOME"
      [] choice = "HR" -> "HR_DASH"
      [] choice = "Employee" -> "EMPLOYEE"
      [] OTHER -> "QR_DISPLAY"

\* The sidebar, lines 96-104: every run sets ui_view from the radio.
sidebar(choice, token) ==
    CASE choice = "Home" -> "HOME"
      [] choice = "HR" -> IF token # None THEN "HR_DASH" ELSE "HR_AUTH"
      [] choice = "Employee" -> "EMPLOYEE"
      [] OTHER -> "QR_DISPLAY"

\* A variant in which a run may start while a request is still in flight.
can_start_run_async(pending) == Cardinality(pending) < 2

\* requests.get/post block the script: no run starts while the session
\* waits for a response.
can_start_run(pending) == pending = {}

\* The gate of the HR dashboard, lines 172-176: a run that finds
\* ui_view = HR_DASH without a token warns, sets ui_view = HR_AUTH and stops
\* (the page then holds the warning only); any other run goes on to render
\* its view.
hr_dash_gate(view, token) ==
    IF view = "HR_DASH" /\ token = None
    THEN [ui_view |-> "HR_AUTH", stopped |-> TRUE, page |-> Blank("HR_GATE")]
    ELSE [ui_view |-> view, stopped |-> FALSE, page |-> Blank(view)]

\* A run with HR chosen in the sidebar gets to the dashboard code below the
\* gate (line 178 onwards).
reaches_dashboard(token) ==
    LET g == hr_dash_gate(sidebar("HR", token), token)
    IN  g.ui_view = "HR_DASH" /\ ~ g.stopped

OnHrDash == display.view \in {"HR_DASH", "HR_QR"}

\* The user picks Home, HR or Employee in the sidebar (or first loads the
\* page).  A freshly shown HR dashboard has the Company tab selected.
Navigate(choice) ==
    /\ can_start_run(inflight)
    /\ choice # "QR Display"
    /\ LET g == hr_dash_gate(sidebar(choice, hr_token), hr_token)
       IN  /\ ui_view' = g.ui_view
           /\ display' = g.page
    /\ UNCHANGED <<hr_token, hr_email, hr_company, qr_last_token,
                   frontend_base_url, backend_gen, inflight, counters, lk>>

\* HR_AUTH: Register (lines 141-151) or Login (157-167).
Authenticate(form, status, body) ==
    /\ can_start_run(inflight)
    /\ display.view = "HR_AUTH"
    /\ LET json == status # 0 /\ body # "not_json"
           good == status # 0 /\ status < 400 /\ json /\
                   (IF form = "register" THEN status \in {200, 201}
                                         ELSE status = 200)
       IN  IF good /\ body = "access_token"
           THEN \* token stored, ui_view = HR_DASH, st.rerun(): dashboard
                /\ hr_token' = <<"j", "w", "t">>
                /\ hr_email' = <<"e">>
                /\ ui_view' = sidebar("HR", hr_token')
                /\ display' = Blank("HR_DASH")
           ELSE IF good
           THEN \* KeyError on data["access_token"]
                /\ display' = [Blank("HR_AUTH") EXCEPT !.exception = TRUE]
                /\ ui_view' = sidebar("HR", hr_token)
                /\ UNCHANGED <<hr_token, hr_email>>
           ELSE /\ display' = [Blank("HR_AUTH") EXCEPT
                                  !.error = IF status = 0 THEN "No response"
                                            ELSE "data"]
                /\ ui_view' = sidebar("HR", hr_token)
                /\ UNCHANGED <<hr_token, hr_email>>
    /\ UNCHANGED <<hr_company, qr_last_token, frontend_base_url, backend_gen,
                   inflight, counters, lk>>

\* HR_DASH: Logout, lines 183-188, and the rerun it asks for.
Logout ==
    /\ can_start_run(inflight)
    /\ OnHrDash
    /\ hr_token' = None
    /\ hr_email' = None
    /\ hr_company' = None
    /\ ui_view' = sidebar("HR", hr_token')
    /\ display' = Blank("HR_AUTH")
    /\ UNCHANGED <<qr_last_token, frontend_base_url, backend_gen, inflight,
                   counters, lk>>

\* HR_DASH: the tab radio, lines 193-197; the QR tab shows its buttons only
\* when GET /company/me succeeds (lines 286-288, 327-328).
HrSelectTab(tab, companyOk) ==
    /\ can_start_run(inflight)
    /\ reaches_dashboard(hr_token)
    /\ OnHrDash
    /\ ui_view' = sidebar("HR", hr_token)
    /\ display' = IF tab # "QR" THEN Blank("HR_DASH")
                  ELSE IF companyOk THEN Blank("HR_QR")
                  ELSE [Blank("HR_DASH") EXCEPT !.error = "data"]
    /\ UNCHANGED <<hr_token, hr_email, hr_company, qr_last_token,
                   frontend_base_url, backend_gen, inflight, counters, lk>>

\* HR_DASH, Company tab: "View My Company", lines 220-226.
HrViewCompany(companyOk) ==
    /\ can_start_run(inflight)
    /\ reaches_dashboard(hr_token)
    /\ display.view = "HR_DASH"
    /\ ui_view' = sidebar("HR", hr_token)
    /\ hr_company' = IF companyOk THEN <<"c">> ELSE hr_company
    /\ display' = IF companyOk THEN Blank("HR_DASH")
                  ELSE [Blank("HR_DASH") EXCEPT !.error = "data"]
    /\ UNCHANGED <<hr_token, hr_email, qr_last_token, frontend_base_url,
                   backend_gen, inflight, counters, lk>>

\* HR QR tab: "Fetch Current QR" clicked; the run reaches line 301 and waits
\* for GET /qr/{company_id}/current.
HrFetchStart(base, company_id, attempts) ==
    /\ can_start_run(inflight)
    /\ reaches_dashboard(hr_token)
    /\ display.view = "HR_QR"
    /\ ui_view' = sidebar("HR", hr_token)
    /\ frontend_base_url' = base
    /\ inflight' = inflight \cup
          {[kind |-> "current", res |-> api_get(attempts).res,
            company_id |-> company_id]}
    /\ UNCHANGED <<hr_token, hr_email, hr_company, qr_last_token,
                   backend_gen, display, counters, lk>>

\* ... and resumes with the response, lines 302-313.
HrFetchFinish ==
    \E q \in inflight :
       /\ q.kind = "current"
       /\ LET out == hr_fetch_run(q.res, qr_last_token, frontend_base_url,
                                  q.company_id)
          IN  /\ qr_last_token' = out.last
              /\ display' = out.page
       /\ inflight' = inflight \ {q}
       /\ UNCHANGED <<ui_view, hr_token, hr_email, hr_company,
                      frontend_base_url, backend_gen, counters, lk>>

\* HR QR tab: "Regenerate QR Now" clicked; the run reaches line 317 and waits
\* for POST /qr/regenerate.  The backend rotates its token when it answers
\* 200; when the request times out it may or may not have rotated it.
HrRegenerateStart(base, company_id, status, body, rotated) ==
    /\ can_start_run(inflight)
    /\ reaches_dashboard(hr_token)
    /\ display.view = "HR_QR"
    /\ status = 200 => rotated
    /\ status \in {401, 403, 500} => ~ rotated
    /\ rotated => backend_gen < MaxGen
    /\ ui_view' = sidebar("HR", hr_token)
    /\ frontend_base_url' = base
    /\ backend_gen' = IF rotated THEN backend_gen + 1 ELSE backend_gen
    /\ inflight' = inflight \cup
          {[kind |-> "regenerate",
            res |-> api_get(<<[status |-> status, body |-> body,
                               gen |-> backend_gen']>>).res,
            company_id |-> company_id]}
    /\ UNCHANGED <<hr_token, hr_email, hr_company, qr_last_token,
                   display, counters, lk>>

\* ... and resumes with the response, lines 318-322.
HrRegenerateFinish ==
    \E q \in inflight :
       /\ q.kind = "regenerate"
       /\ LET out == hr_regenerate_run(q.res, qr_last_token,
                                       frontend_base_url, q.company_id)
          IN  /\ qr_last_token' = out.last
              /\ display' = out.page
       /\ inflight' = inflight \ {q}
       /\ UNCHANGED <<ui_view, hr_token, hr_email, hr_company,
                      frontend_base_url, backend_gen, counters, lk>>

\* A run of the QR display view: the user picks it in the sidebar, edits one
\* of its inputs, or st_autorefresh ticks (line 506).  The run reaches line
\* 509 and waits for GET /qr/{company_id}/version.
QrDisplayStart(base, company_id, attempts) ==
    /\ can_start_run(inflight)
    /\ tick_count < MaxTicks
    /\ IF display.view = "QR_DISPLAY" THEN TRUE
       ELSE base = frontend_base_url /\ company_id = 1
    /\ ui_view' = sidebar("QR Display", hr_token)
    /\ frontend_base_url' = base
    /\ tick_count' = tick_count + 1
    /\ get_count' = get_count + api_get(attempts).requests
    /\ inflight' = inflight \cup
          {[kind |-> "version", res |-> api_get(attempts).res,
            company_id |-> company_id]}
    /\ UNCHANGED <<hr_token, hr_email, hr_company, qr_last_token,
                   backend_gen, display, render_count, change_count, lk>>

\* ... and resumes with the response, lines 510-533.
QrDisplayFinish ==
    \E q \in inflight :
       /\ q.kind = "version"
       /\ LET out == qr_display_run(q.res, qr_last_token, frontend_base_url,
                                    q.company_id)
          IN  /\ qr_last_token' = out.last
              /\ display' = out.page
              /\ render_count' = render_count + out.rendered
              /\ change_count' = change_count + out.changed
       /\ inflight' = inflight \ {q}
       /\ UNCHANGED <<ui_view, hr_token, hr_email, hr_company,
                      frontend_base_url, backend_gen, tick_count, get_count,
                      lk>>

\* The backend rotates its token: the daily rotation, or a regenerate asked
\* for from another session.
BackendRotate ==
    /\ backend_gen < MaxGen
    /\ backend_gen' = backend_gen + 1
    /\ UNCHANGED <<session, inflight, display, counters, lk>>

Next ==
    \/ \E choice \in Choices : Navigate(choice)
    \/ \E form \in {"register", "login"}, status \in AuthStatuses,
          body \in AuthBodies : Authenticate(form, status, body)
    \/ Logout
    \/ \E tab \in HrTabs, companyOk \in BOOLEAN : HrSelectTab(tab, companyOk)
    \/ \E companyOk \in BOOLEAN : HrViewCompany(companyOk)
    \/ \E base \in Bases, company_id \in HrCompanyIds,
          r1 \in Responses(backend_gen), r2 \in Retries(backend_gen) :
          HrFetchStart(base, company_id, <<r1, r2>>)
    \/ HrFetchFinish
    \/ \E base \in Bases, company_id \in HrCompanyIds,
          status \in {0} \cup Statuses, body \in {"empty", "not_json"},
          rotated \in BOOLEAN :
          HrRegenerateStart(base, company_id, status, body, rotated)
    \/ HrRegenerateFinish
    \/ \E base \in Bases, company_id \in CompanyIds,
          r1 \in Responses(backend_gen), r2 \in Retries(backend_gen) :
          QrDisplayStart(base, company_id, <<r1, r2>>)
    \/ QrDisplayFinish
    \/ BackendRotate

Spec == Init /\ [][Next]_vars


\* ------------------------------------------------------------------------
\* The deep link round trip: compose in a QR view, parse in the employee
\* panel
\* ------------------------------------------------------------------------
InitLink ==
    /\ ui_view = "HOME"
    /\ hr_token = None
    /\ hr_email = None
    /\ hr_company = None
    /\ qr_last_token = None
    /\ frontend_base_url = <<>>
    /\ backend_gen = 1
    /\ inflight = {}
    /\ display = Blank("NONE")
    /\ tick_count = 0
    /\ get_count = 0
    /\ render_count = 0
    /\ change_count = 0
    /\ lk \in [base : LinkBases, company_id : 1..MaxCompanyId,
               token : LinkTokens, link : {None}, cid_back : {None},
               tok_back : {None}]

\* QR_DISPLAY composes the link, lines 517-520.
ComposeDisplay ==
    /\ lk.link = None
    /\ lk' = [lk EXCEPT !.link = deep_link(lk.base, lk.company_id, lk.token)]
    /\ UNCHANGED <<session, backend_gen, inflight, display, counters>>

\* The HR QR tab composes the link, lines 306-307.
ComposeHr ==
    /\ lk.link = None
    /\ lk' = [lk EXCEPT !.link = hr_deep_link(lk.base, lk.company_id,
                                              lk.token)]
    /\ UNCHANGED <<session, backend_gen, inflight, display, counters>>

\* The employee panel opened at the link reads its parameters, lines 410-412.
ParseEmployee ==
    /\ lk.link # None
    /\ lk.cid_back = None
    /\ lk' = [lk EXCEPT !.cid_back = query_param(lk.link, KeyCompanyId),
                        !.tok_back = query_param(lk.link, KeyQrToken)]
    /\ UNCHANGED <<session, backend_gen, inflight, display, counters>>

NextLink == ComposeDisplay \/ ComposeHr \/ ParseEmployee

SpecLink == InitLink /\ [][NextLink]_vars

\* ------------------------------------------------------------------------
\* Properties
\* ------------------------------------------------------------------------
\* The step in which the run waiting for request q resumes.
Resumes(q) == q \in inflight /\ inflight' = inflight \ {q}

\* A response the token fetcher's contract counts as a success: HTTP 200
\* with a JSON body holding token and token_date (and updated_at, for
\* GET /qr/{id}/version, whose answer carries it).
FetchSucceeded(kind, res) ==
    /\ res.status = 200
    /\ json_ok(res)
    /\ HasField(res.body, "token")
    /\ HasField(res.body, "token_date")
    /\ kind = "version" => HasField(res.body, "updated_at")

\* The page shows the QR image of a deep link carrying token t.
ShowsToken(page, t) ==
    \E base \in Bases, company_id \in CompanyIds \cup HrCompanyIds :
        page.image \in {qrcode_make(deep_link(base, company_id, t)),
                        qrcode_make(hr_deep_link(base, company_id, t))}

\* C1: on the QR display view the image is redrawn iff the fetched token
\* differs from the last-seen token: the render count equals the number of
\* token changes.  (Stated as claimed; the code draws on every accepted
\* fetch.)
C1_RenderPerTokenChange == render_count = change_count

\* C2: a refresh of the QR display view whose fetch fails leaves the image
\* that was displayed on the page.  (Stated as claimed.)
C2_FailedRefreshKeepsImage ==
    [][\A q \in inflight :
          (/\ Resumes(q)
           /\ q.kind = "version"
           /\ (q.res.status # 200 \/ ~ json_ok(q.res))
           /\ display.view = "QR_DISPLAY"
           /\ display.image # NoImage)
          => display'.image = display.image]_vars

\* C3: a token fetch answered 401, 403 or 500, whatever its body, leaves
\* qr_last_token alone and draws no image, in IDLE and in DISPLAYED.
C3_BackendErrorNoUpdate ==
    [][\A q \in inflight :
          (/\ Resumes(q)
           /\ q.kind \in {"version", "current"}
           /\ q.res.status \in {401, 403, 500})
          => /\ qr_last_token' = qr_last_token
             /\ render_count' = render_count
             /\ change_count' = change_count
             /\ display'.image = NoImage]_vars

\* C3 witness: the QR display view, already holding a token, has handled a
\* 401/403/500 answer.
C3_Witness ==
    /\ display.view = "QR_DISPLAY"
    /\ display.status \in {401, 403, 500}
    /\ qr_last_token # None

\* C4: a displayed image encodes the deep link of the last-seen token; a
\* successful fetch stores its token and shows its image; a failed fetch
\* stores nothing and shows no image.  (Stated as claimed.)
C4_ImageMatchesLastSeen ==
    [][/\ display'.image # NoImage => ShowsToken(display', qr_last_token')
       /\ \A q \in inflight :
             (Resumes(q) /\ q.kind \in {"version", "current"})
             => IF FetchSucceeded(q.kind, q.res)
                THEN /\ qr_last_token' = TokenOf(q.res.gen)
                     /\ ShowsToken(display', TokenOf(q.res.gen))
                ELSE /\ qr_last_token' = qr_last_token
                     /\ display'.image = NoImage]_vars

\* C5 as claimed: a successful regenerate ends with the rotated token as
\* last-seen token and on screen.
C5_RegenerateThenFetch ==
    [][\A q \in inflight :
          (Resumes(q) /\ q.kind = "regenerate" /\ accepted(q.res))
          => /\ qr_last_token' = TokenOf(q.res.gen)
             /\ ShowsToken(display', TokenOf(q.res.gen))]_vars

\* C5 amended: a successful regenerate only reports success: it issues no
\* token fetch, leaves qr_last_token as it was and shows no QR image.
C5_RegenerateOnlyRotates ==
    [][\A q \in inflight :
          (Resumes(q) /\ q.kind = "regenerate" /\ accepted(q.res))
          => /\ qr_last_token' = qr_last_token
             /\ display'.image = NoImage
             /\ display'.success
             /\ inflight' = {}
             /\ get_count' = get_count]_vars

\* C5 witness: regenerate has succeeded and the last-seen token is still the
\* token from before the rotation.
C5_Witness ==
    /\ display.view = "HR_QR"
    /\ display.success
    /\ qr_last_token # None
    /\ GenOf(qr_last_token) < backend_gen

\* C6: a regenerate whose rotation call times out leaves the last-seen token
\* and the displayed image as they were and shows an error.  (Stated as
\* claimed.)
C6_RegenerateTimeoutKeepsAll ==
    [][\A q \in inflight :
          (Resumes(q) /\ q.kind = "regenerate" /\ q.res.status = 0)
          => /\ qr_last_token' = qr_last_token
             /\ display'.image = display.image
             /\ display'.error # ""]_vars

\* C7: parsing a composed deep link back, as the employee panel does, yields
\* the company id and the token composed into it.  (Stated as claimed.)
C7_LinkRoundTrip ==
    lk.cid_back # None =>
        /\ lk.cid_back = str(lk.company_id)
        /\ lk.tok_back = lk.token

\* C8: no token fetch ends in an uncaught failure.  (Stated as claimed.)
C8_NoUncaughtFailure ==
    display.view \in {"QR_DISPLAY", "HR_QR"} => ~ display.exception

\* C9 as claimed: a poll in flight when the token is regenerated is cancelled
\* or skipped: no poll result older than the backend's token is applied.
C9_StalePollDropped ==
    [][\A q \in inflight :
          (Resumes(q) /\ q.kind = "version") => q.res.gen = backend_gen]_vars

\* C9 amended: results are applied as they arrive, and since runs never
\* overlap the last-seen token never moves back to an older token.
C9_NoStaleOverwrite ==
    [][/\ GenOf(qr_last_token') >= GenOf(qr_last_token)
       /\ \A q \in inflight :
             (Resumes(q) /\ q.kind = "version" /\ display'.image # NoImage)
             => ShowsToken(display', qr_last_token')]_vars

\* C9 witness: a poll is in flight with the token from before a rotation,
\* while the view already holds a token.
C9_Witness ==
    /\ qr_last_token # None
    /\ \E q \in inflight : q.kind = "version" /\ q.res.gen < backend_gen

\* C10: each run of the QR display view issues exactly one GET, also after
\* a network failure, and a good answer to it brings the view to DISPLAYED
\* with the fetched token.
C10_OneFetchPerTick ==
    [][/\ tick_count' # tick_count =>
             /\ get_count' = get_count + 1
             /\ Cardinality(inflight') = Cardinality(inflight) + 1
       /\ get_count' # get_count => tick_count' = tick_count + 1
       /\ \A q \in inflight :
             (/\ Resumes(q)
              /\ q.kind = "version"
              /\ display.view = "QR_DISPLAY"
              /\ display.status = 0
              /\ accepted(q.res)
              /\ q.res.body = "tdu")
             => /\ qr_last_token' = TokenOf(q.res.gen)
                /\ display'.image =
                      qrcode_make(deep_link(frontend_base_url, q.company_id,
                                            TokenOf(q.res.gen)))]_vars

\* C10 witness: the last poll failed on the network and the next tick's
\* request is in flight with a good answer.
C10_Witness ==
    /\ display.view = "QR_DISPLAY"
    /\ display.status = 0
    /\ \E q \in inflight : q.kind = "version" /\ FetchSucceeded(q.kind, q.res)


\* C11: qr_last_token is written only by the QR display render loop: every
\* step that changes it is a QR display run resuming with its response.
\* (Stated as claimed.)
C11_OnlyRenderLoopWrites ==
    [][qr_last_token' # qr_last_token
       => \E q \in inflight : Resumes(q) /\ q.kind = "version"]_vars


\* C12: the HR dashboard is rendered, and its requests are in flight, only
\* while hr_token is set; with no token the HR choice shows the HR_AUTH
\* view; a run stopped at the dashboard gate leaves ui_view = HR_AUTH; and
\* logout clears hr_token, hr_email and hr_company.
C12_DashboardNeedsToken ==
    [][/\ hr_token' = None =>
             /\ display'.view \notin {"HR_DASH", "HR_QR"}
             /\ ui_view' # "HR_DASH"
             /\ \A q \in inflight' : q.kind \notin {"current", "regenerate"}
             /\ ui_view' = "HR_AUTH" => display'.view = "HR_AUTH"
       /\ display'.view = "HR_GATE" => ui_view' = "HR_AUTH"
       /\ (hr_token # None /\ hr_token' = None) =>
             /\ hr_email' = None
             /\ hr_company' = None
             /\ ui_view' = "HR_AUTH"]_vars

\* C12 witness: the session holds no token and shows HR_AUTH after a login,
\* a dashboard fetch (the only writer of qr_last_token outside the QR
\* display) and a logout.
C12_Witness ==
    /\ hr_token = None
    /\ hr_email = None
    /\ hr_company = None
    /\ ui_view = "HR_AUTH"
    /\ display.view = "HR_AUTH"
    /\ qr_last_token # None
    /\ render_count = 0

=============================================================================
